---- MODULE Spec2Model ----
(***************************************************************************)
(* Model of app/app.py: the pizza ordering console application.            *)
(*                                                                         *)
(* The relational store is the record db (one field per table or written   *)
(* column).  Money is held in integer cents: the price view supplies       *)
(* two-decimal prices, and round(x, 2) is rounding to the nearest cent.    *)
(* Time is held in minutes.  One handler runs at one instant of the        *)
(* clock: every NOW() of one call of place_order or mark_delivered yields  *)
(* the same value.                                                         *)
(***************************************************************************)
EXTENDS Integers, Sequences, FiniteSets, TLC

VARIABLES
    db,         \* the store as this connection sees it (all tables)
    now,        \* value of NOW(), in minutes
    outcome,    \* messages printed by the last operation
    query,      \* input of a stand-alone evaluation (courier query / calculator)
    answer,     \* result of that stand-alone evaluation
    procs       \* the place_order call of each process on the same store

vars == <<db, now, outcome, query, answer, procs>>

-----------------------------------------------------------------------------
(* Bounds of the model *)

MaxOrders == 3          \* rows of ORDERS
MaxTime == 40           \* last clock value, minutes
MaxItems == 3           \* longest item list given to the stand-alone calculator
MaxStored == 2          \* ORDERS rows in a store drawn for the courier query

(* Program constants *)

COOLDOWN_MINUTES == 30  \* INTERVAL 30 MINUTE
LOYALTY_MIN_PIZZAS == 10
LOYALTY_PERCENT == 10

NULL == -1              \* SQL NULL / Python None in a numeric column
None == <<>>            \* Python None where a string is expected

TickMinutes == {20}

\* The processes connected to the store, and the local state of a process
\* that is not inside place_order.
Procs == {1, 2}

NoCall ==
    [pc |-> "menu", snapshot |-> None, cust |-> NULL, items |-> <<>>,
     delivery_person_id |-> NULL, code_input |-> "", discount_id |-> NULL,
     steps |-> <<>>]

-----------------------------------------------------------------------------
(* Static tables: never written by the application *)

\* PRODUCT joined with v_product_prices; priced = the view has a row for it.
PRODUCT ==
    [p \in 1..4 |->
        CASE p = 1 -> [PRODUCT_TYPE_NAME |-> "Pizza", FINAL_PRICE |-> 800,  priced |-> TRUE]
          [] p = 2 -> [PRODUCT_TYPE_NAME |-> "Pizza", FINAL_PRICE |-> 1000, priced |-> TRUE]
          [] p = 3 -> [PRODUCT_TYPE_NAME |-> "Drink", FINAL_PRICE |-> 300,  priced |-> TRUE]
          [] p = 4 -> [PRODUCT_TYPE_NAME |-> "Dessert", FINAL_PRICE |-> 0,  priced |-> FALSE]]

ProductIds == DOMAIN PRODUCT

\* CUSTOMER rows (all columns but PIZZA_COUNT); is_birthday: BIRTH_DATE has
\* today's month and day.
CUSTOMER ==
    [c \in 1..2 |->
        CASE c = 1 -> [ADDRESS |-> <<"K", "1", " ", "1", "0", "1", "7", "A", "B">>,
                       is_birthday |-> TRUE]
          [] c = 2 -> [ADDRESS |-> <<"H", "o", "f", " ", "2", "2", "a">>,
                       is_birthday |-> FALSE]]

CustomerIds == DOMAIN CUSTOMER

\* DISCOUNT_CODE rows (all columns but IS_USED), CODE unique.
DISCOUNT_CODE ==
    [d \in {1} |-> [CODE |-> "WELCOME10", DISCOUNT_PERCENT |-> 10]]

CodeIds == DOMAIN DISCOUNT_CODE

CourierIds == 1..3

P1017 == <<"1", "0", "1", "7">>
P3011 == <<"3", "0", "1", "1">>
P9999 == <<"9", "9", "9", "9">>

\* DELIVERY_PERSON_POSTAL: (DELIVERY_PERSON_ID, POSTAL_CODE_PREFIX) rows.
DELIVERY_PERSON_POSTAL == {<<2, P1017>>, <<2, P3011>>, <<3, P1017>>}

StatusNames == {"CREATED", "IN_PROGRESS", "OUT_FOR_DELIVERY", "DELIVERED"}

-----------------------------------------------------------------------------
(* Helpers *)

Digits == {"0", "1", "2", "3", "4", "5", "6", "7", "8", "9"}

MinOf(S) == CHOOSE x \in S : \A y \in S : x <= y

MaxOf(a, b) == IF a >= b THEN a ELSE b

Range(s) == {s[i] : i \in DOMAIN s}

\* re.search(r'(\d{4})\s*[A-Za-z]{0,2}', address): the leftmost run of four
\* digits; the tail of the pattern matches the empty string.
extract_postal_prefix(address) ==
    IF address = <<>> THEN None
    ELSE LET starts == {i \in 1..Len(address) :
                          /\ i + 3 <= Len(address)
                          /\ \A k \in 0..3 : address[i + k] \in Digits}
         IN IF starts = {} THEN None
            ELSE SubSeq(address, MinOf(starts), MinOf(starts) + 3)

\* round(num/den, 2) on an amount in cents: the nearest cent.  The value is
\* a binary float, so on an exact half cent either neighbour can come out;
\* tieUp selects which.
round2(num, den, tieUp) ==
    LET q == num \div den
        r == num - q * den
    IN IF 2 * r < den THEN q
       ELSE IF 2 * r > den THEN q + 1
       ELSE IF tieUp THEN q + 1 ELSE q

-----------------------------------------------------------------------------
(* Pricing and discounts: place_order, lines 305-349 *)

\* SELECT FINAL_PRICE, PRODUCT_TYPE_NAME FROM v_product_prices WHERE PRODUCT_ID=pid
product_price_and_type(pid) ==
    IF pid \in ProductIds /\ PRODUCT[pid].priced
    THEN [price |-> PRODUCT[pid].FINAL_PRICE, ptype |-> PRODUCT[pid].PRODUCT_TYPE_NAME]
    ELSE [price |-> NULL, ptype |-> "None"]

\* [price] * amt
Repeat(price, amt) == [i \in 1..amt |-> price]

\* The loop "for pid, amt in items" that builds total_base and the two
\* birthday buckets; raised is TRUE when a product has no row in the view.
RECURSIVE ComputeTotals(_, _)
ComputeTotals(items, acc) ==
    IF items = <<>> \/ acc.raised THEN acc
    ELSE LET pid == Head(items).pid
             amt == Head(items).amt
             row == product_price_and_type(pid)
         IN IF row.price = NULL
            THEN [acc EXCEPT !.raised = TRUE]
            ELSE ComputeTotals(Tail(items),
                   [raised |-> FALSE,
                    total_base |-> acc.total_base + row.price * amt,
                    pizzas_prices |->
                        IF row.ptype = "Pizza"
                        THEN acc.pizzas_prices \o Repeat(row.price, amt)
                        ELSE acc.pizzas_prices,
                    drinks_prices |->
                        IF row.ptype = "Pizza" THEN acc.drinks_prices
                        ELSE IF row.ptype = "Drink"
                        THEN acc.drinks_prices \o Repeat(row.price, amt)
                        ELSE acc.drinks_prices])

NoTotals == [raised |-> FALSE, total_base |-> 0,
             pizzas_prices |-> <<>>, drinks_prices |-> <<>>]

\* Mutant: "if pizza_count > 10".
LoyaltyStep_StrictlyMore(st, pizza_count, tieUp) ==
    IF pizza_count > LOYALTY_MIN_PIZZAS
    THEN LET cut == round2(st.total_base * LOYALTY_PERCENT, 100, tieUp)
         IN [total_base |-> st.total_base - cut,
             discounts_applied |->
                 Append(st.discounts_applied, [label |-> "Loyalty 10% off", amount |-> -cut])]
    ELSE st

\* if pizza_count >= 10: cut = round(total_base * 0.10, 2)
LoyaltyStep(st, pizza_count, tieUp) ==
    IF pizza_count >= LOYALTY_MIN_PIZZAS
    THEN LET cut == round2(st.total_base * LOYALTY_PERCENT, 100, tieUp)
         IN [total_base |-> st.total_base - cut,
             discounts_applied |->
                 Append(st.discounts_applied, [label |-> "Loyalty 10% off", amount |-> -cut])]
    ELSE st

\* if is_birthday: the cheapest pizza unit, then the cheapest drink unit
BirthdayStep(st, is_birthday, pizzas_prices, drinks_prices) ==
    IF is_birthday
    THEN LET afterPizza ==
                 IF pizzas_prices # <<>>
                 THEN LET free_pizza == MinOf(Range(pizzas_prices))
                      IN [total_base |-> st.total_base - free_pizza,
                          discounts_applied |->
                              Append(st.discounts_applied,
                                     [label |-> "Birthday: free pizza", amount |-> -free_pizza])]
                 ELSE st
         IN IF drinks_prices # <<>>
            THEN LET free_drink == MinOf(Range(drinks_prices))
                 IN [total_base |-> afterPizza.total_base - free_drink,
                     discounts_applied |->
                         Append(afterPizza.discounts_applied,
                                [label |-> "Birthday: free drink", amount |-> -free_drink])]
            ELSE afterPizza
    ELSE st

\* Mutant: the entry is recorded but "total_base -= cut" is missing.
CodeStep_NotSubtracted(st, discount_percent_code, tieUp) ==
    IF discount_percent_code > 0
    THEN LET cut == round2(st.total_base * discount_percent_code, 100, tieUp)
         IN [total_base |-> st.total_base,
             discounts_applied |->
                 Append(st.discounts_applied, [label |-> "Code % off", amount |-> -cut])]
    ELSE st

\* if discount_percent_code > 0: cut = round(total_base * (percent / 100.0), 2)
CodeStep(st, discount_percent_code, tieUp) ==
    IF discount_percent_code > 0
    THEN LET cut == round2(st.total_base * discount_percent_code, 100, tieUp)
         IN [total_base |-> st.total_base - cut,
             discounts_applied |->
                 Append(st.discounts_applied, [label |-> "Code % off", amount |-> -cut])]
    ELSE st

\* Lines 305-349 as a whole.  in: items, pizza_count, is_birthday,
\* discount_percent_code, tieUp.
Calculate(in) ==
    LET t == ComputeTotals(in.items, NoTotals)
    IN IF t.raised
       THEN [raised |-> TRUE, base |-> 0, total_base |-> 0,
             discounts_applied |-> <<>>, total_final |-> 0]
       ELSE LET s0 == [total_base |-> t.total_base, discounts_applied |-> <<>>]
                s1 == LoyaltyStep(s0, in.pizza_count, in.tieUp)
                s2 == BirthdayStep(s1, in.is_birthday, t.pizzas_prices, t.drinks_prices)
                s3 == CodeStep(s2, in.discount_percent_code, in.tieUp)
            IN [raised |-> FALSE,
                base |-> t.total_base,
                total_base |-> s3.total_base,
                discounts_applied |-> s3.discounts_applied,
                total_final |-> MaxOf(s3.total_base, 0)]

\* Mutant: every item is counted, whatever its type.
RECURSIVE pizzas_ordered_AllItems(_)
pizzas_ordered_AllItems(items) ==
    IF items = <<>> THEN 0
    ELSE Head(items).amt + pizzas_ordered_AllItems(Tail(items))

\* sum(amt for (pid, amt) in items if product_price_and_type(cnx, pid)[1] == "Pizza")
RECURSIVE pizzas_ordered(_)
pizzas_ordered(items) ==
    IF items = <<>> THEN 0
    ELSE (IF product_price_and_type(Head(items).pid).ptype = "Pizza"
          THEN Head(items).amt ELSE 0) + pizzas_ordered(Tail(items))

-----------------------------------------------------------------------------
(* The store *)

\* A row of ORDERS.  STATUS_ID is held by its STATUS_NAME.  CREATED_AT is
\* written once and only ever displayed: it is left out.  ORDER_ID is the
\* row's index: AUTO_INCREMENT, no row is ever deleted.
OrderRow(total, discount_id, dp, status, cust) ==
    [DELIVERED_AT |-> NULL, TOTAL_PRICE |-> total,
     DISCOUNT_CODE_ID |-> discount_id, DELIVERY_PERSON_ID |-> dp,
     STATUS_ID |-> status, CUSTOMER_ID |-> cust]

OrderIds(s) == 1..Len(s.ORDERS)

Couriers(s) == DOMAIN s.IS_AVAILABLE

\* cnx.commit(): the pending writes become the committed store.
commit(committed, working) == working

\* Mutant: the handler swallows the exception without cnx.rollback(); the
\* pending writes stay in the connection and the next commit keeps them.
rollback_Missing(committed, working) == working

\* cnx.rollback(): the pending writes are dropped.
rollback(committed, working) == committed

\* Mutant: the missing rows are never inserted.
ensure_statuses_NoInsert(s) == s

\* ensure_statuses: insert the missing status rows, commit.
ensure_statuses(s) ==
    commit(s, [s EXCEPT !.STATUS = s.STATUS \cup
                  {"CREATED", "IN_PROGRESS", "OUT_FOR_DELIVERY", "DELIVERED"}])

\* find_customer for a numeric input: SELECT * FROM CUSTOMER WHERE CUSTOMER_ID=%s
find_customer(s, user_input) ==
    IF user_input \in DOMAIN s.PIZZA_COUNT THEN user_input ELSE NULL

-----------------------------------------------------------------------------
(* Courier assignment: assign_delivery_person *)

\* (SELECT STATUS_ID FROM STATUS WHERE STATUS_NAME='DELIVERED' LIMIT 1)
DeliveredStatusId(s) == IF "DELIVERED" \in s.STATUS THEN "DELIVERED" ELSE "NULL"

\* EXISTS (... o.DELIVERED_AT IS NOT NULL AND o.DELIVERED_AT > NOW() - INTERVAL 30 MINUTE)
InCooldown(s, t, dp) ==
    \E o \in OrderIds(s) :
        /\ s.ORDERS[o].DELIVERY_PERSON_ID = dp
        /\ s.ORDERS[o].DELIVERED_AT # NULL
        /\ s.ORDERS[o].DELIVERED_AT > t - COOLDOWN_MINUTES

\* EXISTS (... o2.STATUS_ID <> (SELECT STATUS_ID ... 'DELIVERED')); a
\* comparison with NULL is not true.
HasUndelivered(s, dp) ==
    \E o \in OrderIds(s) :
        /\ s.ORDERS[o].DELIVERY_PERSON_ID = dp
        /\ DeliveredStatusId(s) # "NULL"
        /\ s.ORDERS[o].STATUS_ID # DeliveredStatusId(s)

eligibility_conditions(s, t, dp) ==
    /\ s.IS_AVAILABLE[dp]
    /\ ~InCooldown(s, t, dp)
    /\ ~HasUndelivered(s, dp)

\* Mutant: the join without "dpp.POSTAL_CODE_PREFIX = %s".
PrefixQuery_AnyPrefix(s, t, postal_prefix) ==
    {dp \in Couriers(s) : /\ \E row \in DELIVERY_PERSON_POSTAL : row[1] = dp
                          /\ eligibility_conditions(s, t, dp)}

\* 1. the join on DELIVERY_PERSON_POSTAL, ORDER BY id LIMIT 1 (the rows)
PrefixQuery(s, t, postal_prefix) ==
    {dp \in Couriers(s) : /\ <<dp, postal_prefix>> \in DELIVERY_PERSON_POSTAL
                          /\ eligibility_conditions(s, t, dp)}

\* Mutant: the fallback query without its WHERE clause.
FallbackQuery_AnyCourier(s, t) == Couriers(s)

\* Mutant: the fallback query without the cooldown condition.
FallbackQuery_NoCooldown(s, t) ==
    {dp \in Couriers(s) : s.IS_AVAILABLE[dp] /\ ~HasUndelivered(s, dp)}

\* 2. the fallback query (the rows)
FallbackQuery(s, t) ==
    {dp \in Couriers(s) : eligibility_conditions(s, t, dp)}

assign_delivery_person(s, t, postal_prefix) ==
    IF postal_prefix # None /\ PrefixQuery(s, t, postal_prefix) # {}
    THEN MinOf(PrefixQuery(s, t, postal_prefix))
    ELSE IF FallbackQuery(s, t) # {}
    THEN MinOf(FallbackQuery(s, t))
    ELSE NULL

-----------------------------------------------------------------------------
(* place_order *)

\* Mutant: the SELECT without "AND IS_USED=0".
SelectUnusedCode_AnyCode(s, code_input) ==
    LET rows == {d \in DOMAIN s.IS_USED : DISCOUNT_CODE[d].CODE = code_input}
    IN IF rows = {} THEN NULL ELSE MinOf(rows)

\* SELECT DISCOUNT_CODE_ID ... WHERE CODE=%s AND IS_USED=0, fetchone()
SelectUnusedCode(s, code_input) ==
    LET rows == {d \in DOMAIN s.IS_USED :
                    DISCOUNT_CODE[d].CODE = code_input /\ ~s.IS_USED[d]}
    IN IF rows = {} THEN NULL ELSE MinOf(rows)

\* UPDATE DISCOUNT_CODE SET IS_USED=1 WHERE DISCOUNT_CODE_ID=%s
MarkCodeUsed(s, discount_id) ==
    IF discount_id # NULL THEN [s EXCEPT !.IS_USED[discount_id] = TRUE] ELSE s

\* INSERT INTO ORDERS ...; order_id = cur.lastrowid
InsertOrder(s, row) ==
    [s EXCEPT !.ORDERS = Append(s.ORDERS, row)]

\* cur.lastrowid after the INSERT
lastrowid(s) == Len(s.ORDERS)

\* for pid, amt in items: INSERT INTO ORDER_ITEM (AMOUNT, PRODUCT_ID, ORDER_ID)
InsertItems(s, order_id, items) ==
    [s EXCEPT !.ORDER_ITEM =
        s.ORDER_ITEM \o [i \in 1..Len(items) |->
                            [AMOUNT |-> items[i].amt, PRODUCT_ID |-> items[i].pid,
                             ORDER_ID |-> order_id]]]

\* UPDATE CUSTOMER SET PIZZA_COUNT = PIZZA_COUNT + %s WHERE CUSTOMER_ID=%s
UpdatePizzaCount(s, cust, items) ==
    [s EXCEPT !.PIZZA_COUNT[cust] = s.PIZZA_COUNT[cust] + pizzas_ordered(items)]

\* Mutant: the UPDATE that clears the flag is not issued.
MarkCourierUnavailable_Skipped(s, dp) == s

\* UPDATE DELIVERY_PERSON SET IS_AVAILABLE=0 WHERE DELIVERY_PERSON_ID=%s
MarkCourierUnavailable(s, dp) ==
    [s EXCEPT !.IS_AVAILABLE[dp] = FALSE]

\* The statements of place_order that can raise, in program order.
\* fail names the one that raises in this call ("none": no statement does).
FailPoints == {"none", "code", "order", "item", "count", "courier", "commit"}

Front(seq) == SubSeq(seq, 1, Len(seq) - 1)

MsgCustomerNotFound == "Customer not found."
MsgNoItems == "No items selected. Cancelling."
MsgNoCourier == "No available delivery person for your area right now."
MsgCodeIgnored == "Invalid or already used code (ignored)."
MsgConfirmed == "ORDER CONFIRMATION"
MsgRolledBack == "Order failed and rolled back"

\* Lines 281-393: the try block.  snapshot is the store as the SELECTs of
\* this transaction see it, s0 the committed store its writes apply to.
\* Result: the store after commit or rollback and the messages printed.
PersistTx(snapshot, s0, t, cust, items, dp, code_input, fail, tieUp) ==
    LET pizza_count == snapshot.PIZZA_COUNT[cust]
        is_birthday == CUSTOMER[cust].is_birthday
        codeRaised == code_input # "" /\ fail = "code"
        discount_id == IF code_input # "" THEN SelectUnusedCode(snapshot, code_input) ELSE NULL
        discount_percent_code ==
            IF discount_id # NULL THEN DISCOUNT_CODE[discount_id].DISCOUNT_PERCENT ELSE 0
        ignored == IF code_input # "" /\ discount_id = NULL
                   THEN <<MsgCodeIgnored>> ELSE <<>>
        w1 == MarkCodeUsed(s0, discount_id)
        calc == Calculate([items |-> items, pizza_count |-> pizza_count,
                           is_birthday |-> is_birthday,
                           discount_percent_code |-> discount_percent_code,
                           tieUp |-> tieUp])
        w2 == InsertOrder(w1,
                 OrderRow(calc.total_final, discount_id, dp, "CREATED", cust))
        order_id == lastrowid(w2)
        w3 == InsertItems(w2, order_id, items)
        w4 == UpdatePizzaCount(w3, cust, items)
        w5 == MarkCourierUnavailable(w4, dp)
    IN IF codeRaised
       THEN [s |-> rollback(s0, s0), msgs |-> <<MsgRolledBack>>]
       ELSE IF calc.raised \/ fail = "order"
       THEN [s |-> rollback(s0, w1),
             msgs |-> ignored \o <<MsgRolledBack>>]
       ELSE IF fail = "item"
       THEN [s |-> rollback(s0, InsertItems(w2, order_id, Front(items))),
             msgs |-> ignored \o <<MsgRolledBack>>]
       ELSE IF fail = "count"
       THEN [s |-> rollback(s0, w3),
             msgs |-> ignored \o <<MsgRolledBack>>]
       ELSE IF fail = "courier"
       THEN [s |-> rollback(s0, w4),
             msgs |-> ignored \o <<MsgRolledBack>>]
       ELSE IF fail = "commit"
       THEN [s |-> rollback(s0, w5),
             msgs |-> ignored \o <<MsgRolledBack>>]
       ELSE [s |-> commit(s0, w5),
             msgs |-> ignored \o <<MsgConfirmed>>]

\* The try block in a process that is alone on the store: its SELECTs see
\* the committed store.
Persist(s0, t, cust, items, dp, code_input, fail, tieUp) ==
    PersistTx(s0, s0, t, cust, items, dp, code_input, fail, tieUp)

\* Mutant: the check for a missing courier is gone.
NoCourier_Unchecked(delivery_person_id) == FALSE

\* if not delivery_person_id
NoCourier(delivery_person_id) == delivery_person_id = NULL \/ delivery_person_id = 0

\* place_order as a whole.
place_order(s, t, cust_in, items, code_input, fail, tieUp) ==
    LET s0 == ensure_statuses(s)
        cust == find_customer(s0, cust_in)
    IN IF cust = NULL
       THEN [s |-> s0, msgs |-> <<MsgCustomerNotFound>>]
       ELSE IF items = <<>>
       THEN [s |-> s0, msgs |-> <<MsgNoItems>>]
       ELSE LET postal_prefix == extract_postal_prefix(CUSTOMER[cust].ADDRESS)
                delivery_person_id == assign_delivery_person(s0, t, postal_prefix)
            IN IF NoCourier(delivery_person_id)
               THEN [s |-> s0, msgs |-> <<MsgNoCourier>>]
               ELSE Persist(s0, t, cust, items, delivery_person_id,
                            code_input, fail, tieUp)

-----------------------------------------------------------------------------
(* mark_delivered *)

MsgInvalidNumber == "Invalid number."
MsgOrderNotFound == "Order not found."
MsgDelivered == "marked DELIVERED. Courier remains unavailable for 30 minutes after delivery."
MsgDeliveredRestored == "marked DELIVERED. Courier availability restored (30m passed)."
MsgDeliverFailed == "Failed to mark delivered"

\* Mutant: the SELECT without its WHERE clause.
SelectOrder_AnyOrder(s, oid) == OrderIds(s)

\* SELECT DELIVERY_PERSON_ID FROM ORDERS WHERE ORDER_ID=%s (the rows)
SelectOrder(s, oid) == {o \in OrderIds(s) : o = oid}

\* UPDATE ORDERS SET STATUS_ID=%s, DELIVERED_AT=NOW() WHERE ORDER_ID=%s
\* (no row matches an ORDER_ID that is not in the table)
UpdateDelivered(s, t, oid) ==
    IF oid \in OrderIds(s)
    THEN [s EXCEPT !.ORDERS[oid].STATUS_ID = "DELIVERED",
                   !.ORDERS[oid].DELIVERED_AT = t]
    ELSE s

\* Mutant: the interval is subtracted instead of added.
can_enable_SignSlip(s, t, oid) ==
    /\ oid \in OrderIds(s)
    /\ t > s.ORDERS[oid].DELIVERED_AT - COOLDOWN_MINUTES

\* CASE WHEN NOW() > (SELECT DELIVERED_AT FROM ORDERS WHERE ORDER_ID=%s)
\*                   + INTERVAL 30 MINUTE THEN 1 ELSE 0 END
\* (the subquery is NULL when no row matches, and the CASE then yields 0)
can_enable(s, t, oid) ==
    /\ oid \in OrderIds(s)
    /\ t > s.ORDERS[oid].DELIVERED_AT + COOLDOWN_MINUTES

\* UPDATE DELIVERY_PERSON SET IS_AVAILABLE=1 WHERE DELIVERY_PERSON_ID=%s
MarkCourierAvailable(s, dp_id) ==
    [s EXCEPT !.IS_AVAILABLE[dp_id] = TRUE]

\* The statements of mark_delivered that can raise.
DeliverFailPoints == {"none", "update", "check", "courier", "commit"}

\* oid_in: the number typed, NULL when it is not a number.
mark_delivered(s, t, oid_in, fail) ==
    LET s0 == ensure_statuses(s)
    IN IF oid_in = NULL
       THEN [s |-> s0, msgs |-> <<MsgInvalidNumber>>]
       ELSE IF SelectOrder(s0, oid_in) = {}
       THEN [s |-> rollback(s0, s0), msgs |-> <<MsgOrderNotFound>>]
       ELSE LET row == MinOf(SelectOrder(s0, oid_in))
                dp_id == s0.ORDERS[row].DELIVERY_PERSON_ID
                w1 == UpdateDelivered(s0, t, oid_in)
                enable == can_enable(w1, t, oid_in)
                w2 == IF enable THEN MarkCourierAvailable(w1, dp_id) ELSE w1
            IN IF fail = "update"
               THEN [s |-> rollback(s0, s0), msgs |-> <<MsgDeliverFailed>>]
               ELSE IF fail = "check" \/ (fail = "courier" /\ enable)
               THEN [s |-> rollback(s0, w1), msgs |-> <<MsgDeliverFailed>>]
               ELSE IF fail = "commit"
               THEN [s |-> rollback(s0, w2), msgs |-> <<MsgDeliverFailed>>]
               ELSE [s |-> commit(s0, w2),
                     msgs |-> <<IF enable THEN MsgDeliveredRestored ELSE MsgDelivered>>]

-----------------------------------------------------------------------------
(* The single-process session: main()'s menu loop *)

\* Item lists typed in select_products.
OrderLists ==
    { <<>>,
      <<[pid |-> 1, amt |-> 1]>>,
      <<[pid |-> 2, amt |-> 2], [pid |-> 3, amt |-> 1]>>,
      <<[pid |-> 1, amt |-> 1], [pid |-> 4, amt |-> 1]>> }

CustomerInputs == {1, 2, 3}

CodeInputs == {"", "WELCOME10", "NOPE"}

\* No amount of these menus and codes falls on a half cent: the direction
\* of a rounding tie cannot show in the session.
SessionTies == {FALSE}

EmptyStore(statusRows, couriers) ==
    [STATUS |-> statusRows,
     PIZZA_COUNT |-> [c \in CustomerIds |-> IF c = 1 THEN 9 ELSE 0],
     IS_AVAILABLE |-> [dp \in couriers |-> TRUE],
     IS_USED |-> [d \in CodeIds |-> FALSE],
     ORDERS |-> <<>>,
     ORDER_ITEM |-> <<>>]

Init ==
    /\ \E statusRows \in SUBSET StatusNames : db = EmptyStore(statusRows, {1, 2})
    /\ now = 0
    /\ outcome = <<>>
    /\ query = <<>>
    /\ answer = <<>>
    /\ procs = [p \in Procs |-> NoCall]

PlaceOrder ==
    \E cust_in \in CustomerInputs, items \in OrderLists, code_input \in CodeInputs,
       fail \in FailPoints, tieUp \in SessionTies :
        LET r == place_order(db, now, cust_in, items, code_input, fail, tieUp)
        IN /\ Len(r.s.ORDERS) <= MaxOrders
           /\ db' = r.s
           /\ outcome' = r.msgs
           /\ UNCHANGED <<now, query, answer, procs>>

MarkDelivered ==
    \E oid_in \in (1..(MaxOrders + 1)) \cup {NULL}, fail \in DeliverFailPoints :
        LET r == mark_delivered(db, now, oid_in, fail)
        IN /\ db' = r.s
           /\ outcome' = r.msgs
           /\ UNCHANGED <<now, query, answer, procs>>

\* Time passes between two operations.
Tick ==
    /\ \E dt \in TickMinutes : now + dt <= MaxTime /\ now' = now + dt
    /\ UNCHANGED <<db, outcome, query, answer, procs>>

Next == PlaceOrder \/ MarkDelivered \/ Tick

Spec == Init /\ [][Next]_vars

\* The session of an operator who keeps using the menu: main's loop runs
\* the chosen handler to its end and asks again, and time passes.
SpecLive ==
    /\ Init /\ [][Next]_vars
    /\ WF_vars(PlaceOrder)
    /\ WF_vars(MarkDelivered)
    /\ WF_vars(Tick)

-----------------------------------------------------------------------------
(* assign_delivery_person on its own, over stores drawn from a bounded set *)

SeqsUpTo(S, n) == UNION {[1..k -> S] : k \in 0..n}

\* ORDERS rows as the application writes them: CREATED without a delivery
\* time, or DELIVERED with one.
StoredTimes == {0, 10, 20, 40}

StoredRows(couriers, t) ==
    {OrderRow(0, NULL, dp, "CREATED", 1) : dp \in couriers}
    \cup {[OrderRow(0, NULL, dp, "DELIVERED", 1) EXCEPT !.DELIVERED_AT = at] :
            dp \in couriers, at \in {x \in StoredTimes : x <= t}}

PrefixInputs == {None, P1017, P3011, P9999}

InitAssign ==
    /\ now = MaxTime
    /\ \E flags \in [CourierIds -> BOOLEAN],
          rows \in SeqsUpTo(StoredRows(CourierIds, MaxTime), MaxStored) :
            db = [EmptyStore(StatusNames, CourierIds) EXCEPT
                    !.IS_AVAILABLE = flags, !.ORDERS = rows]
    /\ outcome = <<>>
    /\ \E postal_prefix \in PrefixInputs :
            query = [postal_prefix |-> postal_prefix]
    /\ answer = <<>>
    /\ procs = [p \in Procs |-> NoCall]

AssignStep ==
    /\ answer = <<>>
    /\ answer' = [delivery_person_id |->
                      assign_delivery_person(db, now, query.postal_prefix)]
    /\ UNCHANGED <<db, now, outcome, query, procs>>

NextAssign == AssignStep

SpecAssign == InitAssign /\ [][NextAssign]_vars

-----------------------------------------------------------------------------
(* The pricing and discount calculation on its own *)

CalcEntries == {[pid |-> p, amt |-> a] : p \in {1, 2, 3}, a \in {1, 2}}

PriorCounts == {9, 10, 12}

Percentages == {0, 1, 5, 10, 25, 50, 99, 100}

InitCalc ==
    /\ now = 0
    /\ db = EmptyStore(StatusNames, {1, 2})
    /\ outcome = <<>>
    /\ \E items \in SeqsUpTo(CalcEntries, MaxItems), pizza_count \in PriorCounts,
          is_birthday \in BOOLEAN, percent \in Percentages, tieUp \in BOOLEAN :
            query = [items |-> items, pizza_count |-> pizza_count,
                     is_birthday |-> is_birthday,
                     discount_percent_code |-> percent, tieUp |-> tieUp]
    /\ answer = <<>>
    /\ procs = [p \in Procs |-> NoCall]

CalcStep ==
    /\ answer = <<>>
    /\ answer' = Calculate(query)
    /\ UNCHANGED <<db, now, outcome, query, procs>>

NextCalc == CalcStep

SpecCalc == InitCalc /\ [][NextCalc]_vars

-----------------------------------------------------------------------------
(* place_order called by several processes connected to the same store *)

\* Each process has its own connection with autocommit off (lines 22-23)
\* and the isolation level the server gives by default, REPEATABLE READ:
\* the SELECTs of a transaction read the store as committed when its first
\* SELECT ran, its UPDATEs and INSERTs apply to the rows as committed now,
\* and an UPDATE waits while another transaction holds the row updated.
\* A process is at "menu" outside place_order, at "items" while it waits
\* in select_products, at "code" while it waits for the discount code and
\* at "write" between the discount computation and the first INSERT.

\* Lines 255-264: ensure_statuses commits; show_customers is the first
\* SELECT of the next transaction and fixes what it reads.
begin_order(s, cust_in) ==
    LET s0 == ensure_statuses(s)
        cust == find_customer(s0, cust_in)
    IN IF cust = NULL
       THEN [call |-> NoCall, s |-> s0, msgs |-> <<MsgCustomerNotFound>>]
       ELSE [call |-> [NoCall EXCEPT !.pc = "items", !.snapshot = s0,
                                     !.cust = cust,
                                     !.steps = <<"find_customer">>],
             s |-> s0, msgs |-> <<>>]

\* Mutant: the courier is not assigned before the try block.
choose_items_NoAssign(call, t, items) ==
    IF items = <<>>
    THEN [call |-> NoCall, msgs |-> <<MsgNoItems>>]
    ELSE [call |-> [call EXCEPT !.pc = "code", !.items = items,
                                !.steps = @ \o <<"select_products">>],
          msgs |-> <<>>]

\* Lines 266-278: select_products, then assign_delivery_person.
choose_items(call, t, items) ==
    IF items = <<>>
    THEN [call |-> NoCall, msgs |-> <<MsgNoItems>>]
    ELSE LET postal_prefix == extract_postal_prefix(CUSTOMER[call.cust].ADDRESS)
             delivery_person_id ==
                 assign_delivery_person(call.snapshot, t, postal_prefix)
         IN IF NoCourier(delivery_person_id)
            THEN [call |-> NoCall, msgs |-> <<MsgNoCourier>>]
            ELSE [call |-> [call EXCEPT
                              !.pc = "code", !.items = items,
                              !.delivery_person_id = delivery_person_id,
                              !.steps = @ \o <<"select_products",
                                               "assign_delivery_person">>],
                  msgs |-> <<>>]

\* Lines 285-349: the code is read and marked used, the totals and the
\* discounts are computed.  The UPDATE of the code is held by the
\* transaction until it commits or rolls back.
read_discounts(call, code_input, fail, tieUp) ==
    LET discount_id == IF code_input # ""
                       THEN SelectUnusedCode(call.snapshot, code_input) ELSE NULL
        ignored == IF code_input # "" /\ discount_id = NULL
                   THEN <<MsgCodeIgnored>> ELSE <<>>
        calc == Calculate([items |-> call.items,
                           pizza_count |-> call.snapshot.PIZZA_COUNT[call.cust],
                           is_birthday |-> CUSTOMER[call.cust].is_birthday,
                           discount_percent_code |->
                               IF discount_id # NULL
                               THEN DISCOUNT_CODE[discount_id].DISCOUNT_PERCENT
                               ELSE 0,
                           tieUp |-> tieUp])
    IN IF code_input # "" /\ fail = "code"
       THEN [call |-> NoCall, msgs |-> <<MsgRolledBack>>]
       ELSE IF calc.raised
       THEN [call |-> NoCall, msgs |-> ignored \o <<MsgRolledBack>>]
       ELSE [call |-> [call EXCEPT !.pc = "write", !.code_input = code_input,
                                   !.discount_id = discount_id,
                                   !.steps = @ \o <<"discounts_applied">>],
             msgs |-> ignored]

\* The transaction of this call holds the row of code d of DISCOUNT_CODE.
HoldsCode(call, d) ==
    call.pc = "write" /\ d # NULL /\ call.discount_id = d

\* Lines 351-393: the INSERTs, the UPDATEs and the commit, on the store
\* as committed now.
write_order(call, s, t, fail, tieUp) ==
    PersistTx(call.snapshot, s, t, call.cust, call.items,
              call.delivery_person_id, call.code_input, fail, tieUp)

\* Item lists typed in the concurrent calls: none, one pizza, and a pizza
\* with a product the price view has no row for.
ConcOrderLists == {items \in OrderLists : \A i \in 1..Len(items) : items[i].amt = 1}

InitConc ==
    /\ db = EmptyStore(StatusNames, {1, 2})
    /\ now = 0
    /\ outcome = <<>>
    /\ query = <<>>
    /\ answer = <<>>
    /\ procs = [p \in Procs |-> NoCall]

BeginOrder(p) ==
    /\ procs[p].pc = "menu"
    /\ \E cust_in \in CustomerInputs :
        LET r == begin_order(db, cust_in)
        IN /\ db' = r.s
           /\ outcome' = r.msgs
           /\ procs' = [procs EXCEPT ![p] = r.call]
    /\ UNCHANGED <<now, query, answer>>

ChooseItems(p) ==
    /\ procs[p].pc = "items"
    /\ \E items \in ConcOrderLists :
        LET r == choose_items(procs[p], now, items)
        IN /\ outcome' = r.msgs
           /\ procs' = [procs EXCEPT ![p] = r.call]
    /\ UNCHANGED <<db, now, query, answer>>

ReadDiscounts(p) ==
    /\ procs[p].pc = "code"
    /\ \E code_input \in CodeInputs, fail \in {"none", "code"}, tieUp \in SessionTies :
        LET r == read_discounts(procs[p], code_input, fail, tieUp)
        IN /\ \A q \in Procs \ {p} : ~HoldsCode(procs[q], r.call.discount_id)
           /\ outcome' = r.msgs
           /\ procs' = [procs EXCEPT ![p] = r.call]
    /\ UNCHANGED <<db, now, query, answer>>

WriteOrder(p) ==
    /\ procs[p].pc = "write"
    /\ \E fail \in FailPoints \ {"code"}, tieUp \in SessionTies :
        LET r == write_order(procs[p], db, now, fail, tieUp)
        IN /\ Len(r.s.ORDERS) <= MaxOrders
           /\ db' = r.s
           /\ outcome' = r.msgs
           /\ procs' = [procs EXCEPT ![p] = NoCall]
    /\ UNCHANGED <<now, query, answer>>

NextConc ==
    \E p \in Procs :
        BeginOrder(p) \/ ChooseItems(p) \/ ReadDiscounts(p) \/ WriteOrder(p)

SpecConc == InitConc /\ [][NextConc]_vars

-----------------------------------------------------------------------------
(* Properties *)

Last(seq) == seq[Len(seq)]

\* This step inserted a row into ORDERS (only a committed place_order does).
OrderAdded == Len(db'.ORDERS) = Len(db.ORDERS) + 1

NewOrder == db'.ORDERS[Len(db'.ORDERS)]

OrdersWithCode(d) == {o \in OrderIds(db) : db.ORDERS[o].DISCOUNT_CODE_ID = d}

ActiveOrders(dp) ==
    {o \in OrderIds(db) : /\ db.ORDERS[o].DELIVERY_PERSON_ID = dp
                          /\ db.ORDERS[o].STATUS_ID # "DELIVERED"}

\* C1: a discount code applied to a committed order is never applied to a
\* later one: a used flag never returns to unused, a new order references
\* only a code that was unused before it, and at most one order references
\* a given code.
C1_CodeUsedOnce ==
    /\ [](\A d \in CodeIds :
            /\ Cardinality(OrdersWithCode(d)) <= 1
            /\ OrdersWithCode(d) # {} => db.IS_USED[d])
    /\ [][\A d \in CodeIds :
            /\ db.IS_USED[d] => db'.IS_USED[d]
            /\ (OrderAdded /\ NewOrder.DISCOUNT_CODE_ID = d) => ~db.IS_USED[d]]_vars

\* A used code was typed again for a second, committed order and ignored.
C1_Witness ==
    /\ Len(db.ORDERS) = 2
    /\ db.ORDERS[1].DISCOUNT_CODE_ID = 1
    /\ db.ORDERS[2].DISCOUNT_CODE_ID = NULL
    /\ db.IS_USED[1]
    /\ outcome = <<MsgCodeIgnored, MsgConfirmed>>

\* C2: the courier place_order assigns has no order that is not DELIVERED,
\* and so each courier has at most one order that is not DELIVERED.
C2_OneActiveOrderPerCourier ==
    /\ [](\A dp \in Couriers(db) : Cardinality(ActiveOrders(dp)) <= 1)
    /\ [][OrderAdded => ActiveOrders(NewOrder.DELIVERY_PERSON_ID) = {}]_vars

\* Two orders are open at once, each with its own courier.
C2_Witness ==
    /\ Len(db.ORDERS) = 2
    /\ db.ORDERS[1].STATUS_ID = "CREATED"
    /\ db.ORDERS[2].STATUS_ID = "CREATED"
    /\ db.ORDERS[1].DELIVERY_PERSON_ID # db.ORDERS[2].DELIVERY_PERSON_ID
    /\ Last(outcome) = MsgConfirmed

\* The courier has an order delivered within the 30 minutes before now.
DeliveredInLast30(dp) ==
    \E o \in OrderIds(db) :
        /\ db.ORDERS[o].DELIVERY_PERSON_ID = dp
        /\ db.ORDERS[o].DELIVERED_AT # NULL
        /\ now - db.ORDERS[o].DELIVERED_AT >= 0
        /\ now - db.ORDERS[o].DELIVERED_AT < 30

\* C3: a courier with an order delivered within the 30 minutes before the
\* evaluation is not returned by assign_delivery_person, by the prefix
\* query or by the fallback.
C3_CooldownRespected ==
    answer # <<>> =>
        \A dp \in Couriers(db) :
            DeliveredInLast30(dp) => answer.delivery_person_id # dp

\* Courier 1 is flagged available and has no open order, but delivered 20
\* minutes ago: the fallback passes over it and returns courier 2.
C3_Witness ==
    /\ answer # <<>>
    /\ query.postal_prefix = None
    /\ db.IS_AVAILABLE[1]
    /\ ActiveOrders(1) = {}
    /\ DeliveredInLast30(1)
    /\ answer.delivery_person_id = 2

SameOrderData(s1, s2) ==
    /\ s1.ORDERS = s2.ORDERS
    /\ s1.ORDER_ITEM = s2.ORDER_ITEM
    /\ s1.PIZZA_COUNT = s2.PIZZA_COUNT
    /\ s1.IS_USED = s2.IS_USED
    /\ s1.IS_AVAILABLE = s2.IS_AVAILABLE

\* C4: a place_order attempt that raises in its try block is rolled back:
\* ORDERS, ORDER_ITEM, the pizza counts, the used flags and the
\* availability flags are what they were before the attempt.
C4_RollbackRestores ==
    [][(outcome' # <<>> /\ Last(outcome') = MsgRolledBack) => SameOrderData(db', db)]_vars

\* An attempt was rolled back after an earlier order had been committed.
C4_Witness ==
    /\ outcome # <<>>
    /\ Last(outcome) = MsgRolledBack
    /\ Len(db.ORDERS) = 1
    /\ Len(db.ORDER_ITEM) = 2

\* C5 as stated: after place_order rejects an empty item list every table
\* has the contents it had before the call.
C5_StoreUnchanged ==
    [][outcome' = <<MsgNoItems>> => db' = db]_vars

\* C5 as amended: after place_order rejects an empty item list every table
\* but STATUS has the contents it had before the call, and STATUS has its
\* earlier rows plus those of the four status names that were missing.
C5_OnlyStatusSeeded ==
    [][outcome' = <<MsgNoItems>> =>
        /\ SameOrderData(db', db)
        /\ db'.STATUS = db.STATUS \cup StatusNames]_vars

\* An empty item list was rejected on a store holding an order.
C5_Witness ==
    /\ outcome = <<MsgNoItems>>
    /\ Len(db.ORDERS) = 1

-----------------------------------------------------------------------------
(* Properties of the calculation *)

RECURSIVE SumAmounts(_)
SumAmounts(entries) ==
    IF entries = <<>> THEN 0
    ELSE Head(entries).amount + SumAmounts(Tail(entries))

\* The labels are in the order loyalty, birthday pizza, birthday drink, code.
LabelRank(label) ==
    CASE label = "Loyalty 10% off" -> 1
      [] label = "Birthday: free pizza" -> 2
      [] label = "Birthday: free drink" -> 3
      [] label = "Code % off" -> 4

InFixedOrder(entries) ==
    \A i, j \in 1..Len(entries) :
        i < j => LabelRank(entries[i].label) < LabelRank(entries[j].label)

\* C6 as stated: the final total is >= 0 and is the base total minus the
\* deductions of the discount entries.
C6_TotalIsBaseMinusDeductions ==
    answer # <<>> =>
        /\ answer.total_final >= 0
        /\ answer.total_final = answer.base + SumAmounts(answer.discounts_applied)

\* C6 as amended: the final total is >= 0 and is the base total minus the
\* deductions of the discount entries (loyalty, then birthday, then code)
\* when that difference is >= 0, and 0 when it is negative.
C6_TotalIsClampedDifference ==
    answer # <<>> =>
        /\ answer.total_final >= 0
        /\ InFixedOrder(answer.discounts_applied)
        /\ answer.total_final =
              MaxOf(answer.base + SumAmounts(answer.discounts_applied), 0)

\* Loyalty and the birthday pizza together exceed the base total: the
\* difference is negative and the final total is 0.
C6_Witness ==
    /\ answer # <<>>
    /\ query.discount_percent_code > 0
    /\ Len(answer.discounts_applied) = 3
    /\ answer.base + SumAmounts(answer.discounts_applied) < 0
    /\ answer.total_final = 0

\* The reference calculation, from the item rows.
RefItems(q, ptype) ==
    {i \in 1..Len(q.items) : PRODUCT[q.items[i].pid].PRODUCT_TYPE_NAME = ptype}

RECURSIVE RefBaseUpTo(_, _)
RefBaseUpTo(q, n) ==
    IF n = 0 THEN 0
    ELSE RefBaseUpTo(q, n - 1) + PRODUCT[q.items[n].pid].FINAL_PRICE * q.items[n].amt

RefBase(q) == RefBaseUpTo(q, Len(q.items))

RefCheapest(q, ptype) ==
    MinOf({PRODUCT[q.items[i].pid].FINAL_PRICE : i \in RefItems(q, ptype)})

RefLoyalty(q) ==
    IF q.pizza_count >= 10 THEN <<round2(RefBase(q) * 10, 100, q.tieUp)>> ELSE <<>>

RefBirthdayPizza(q) ==
    IF q.is_birthday /\ RefItems(q, "Pizza") # {}
    THEN <<RefCheapest(q, "Pizza")>> ELSE <<>>

RefBirthdayDrink(q) ==
    IF q.is_birthday /\ RefItems(q, "Drink") # {}
    THEN <<RefCheapest(q, "Drink")>> ELSE <<>>

RECURSIVE SumSeq(_)
SumSeq(seq) == IF seq = <<>> THEN 0 ELSE Head(seq) + SumSeq(Tail(seq))

RefBeforeCode(q) ==
    RefBase(q) - SumSeq(RefLoyalty(q) \o RefBirthdayPizza(q) \o RefBirthdayDrink(q))

\* A code of 0 percent deducts nothing and leaves no entry.
RefCode(q) ==
    IF q.discount_percent_code > 0
    THEN <<round2(RefBeforeCode(q) * q.discount_percent_code, 100, q.tieUp)>> ELSE <<>>

RefDeductions(q) ==
    RefLoyalty(q) \o RefBirthdayPizza(q) \o RefBirthdayDrink(q) \o RefCode(q)

Deductions(entries) == [i \in 1..Len(entries) |-> -entries[i].amount]

ExampleOrder ==
    [items |-> <<[pid |-> 1, amt |-> 1], [pid |-> 2, amt |-> 1], [pid |-> 3, amt |-> 1]>>,
     pizza_count |-> 12, is_birthday |-> TRUE, discount_percent_code |-> 0,
     tieUp |-> FALSE]

\* C7: the deductions place_order records are those of the reference:
\* 10% of the base total iff the prior pizza count is >= 10, then on a
\* birthday the price of the cheapest pizza unit and of the cheapest drink
\* unit, then the code's percentage of what is left; the worked example
\* comes to 7.90.
C7_MatchesReference ==
    answer # <<>> =>
        /\ answer.base = RefBase(query)
        /\ Deductions(answer.discounts_applied) = RefDeductions(query)
        /\ answer.total_base = RefBase(query) - SumSeq(RefDeductions(query))
        /\ query = ExampleOrder => answer.total_final = 790

\* The worked example has been calculated: 21.00 - 2.10 - 8.00 - 3.00.
C7_Witness ==
    /\ query = ExampleOrder
    /\ answer # <<>>
    /\ Deductions(answer.discounts_applied) = <<210, 800, 300>>
    /\ answer.total_final = 790

-----------------------------------------------------------------------------
(* Properties of the courier query and of the orders it leads to *)

RefEligible(dp) ==
    /\ db.IS_AVAILABLE[dp]
    /\ ~DeliveredInLast30(dp)
    /\ ActiveOrders(dp) = {}

RefCovering(postal_prefix) ==
    {dp \in Couriers(db) : <<dp, postal_prefix>> \in DELIVERY_PERSON_POSTAL}

RefAssigned(postal_prefix) ==
    LET eligible == {dp \in Couriers(db) : RefEligible(dp)}
        matching == eligible \cap RefCovering(postal_prefix)
    IN IF postal_prefix # None /\ matching # {}
       THEN CHOOSE dp \in matching : \A other \in matching : dp <= other
       ELSE IF eligible # {}
       THEN CHOOSE dp \in eligible : \A other \in eligible : dp <= other
       ELSE NULL

\* C8: assign_delivery_person returns the lowest-id eligible courier that
\* covers the prefix when a prefix is given and one exists, else the
\* lowest-id eligible courier, else none; eligible is flagged available,
\* no delivery in the last 30 minutes, no order that is not DELIVERED.
C8_AssignMatchesReference ==
    answer # <<>> => answer.delivery_person_id = RefAssigned(query.postal_prefix)

\* Courier 1 is eligible but does not cover the prefix; couriers 2 and 3
\* both cover it and are eligible: courier 2 is returned.
C8_Witness ==
    /\ answer # <<>>
    /\ query.postal_prefix = P1017
    /\ RefEligible(1) /\ RefEligible(2) /\ RefEligible(3)
    /\ answer.delivery_person_id = 2

\* C9: when no courier is eligible place_order aborts and persists
\* nothing; every order references a courier, one that was eligible when
\* the order was placed.
C9_NoCourierNoOrder ==
    /\ [](\A o \in OrderIds(db) : db.ORDERS[o].DELIVERY_PERSON_ID \in Couriers(db))
    /\ [][/\ outcome' = <<MsgNoCourier>> => SameOrderData(db', db)
          /\ OrderAdded => /\ NewOrder.DELIVERY_PERSON_ID \in Couriers(db)
                           /\ RefEligible(NewOrder.DELIVERY_PERSON_ID)
          /\ (\A dp \in Couriers(db) : ~RefEligible(dp)) => ~OrderAdded]_vars

\* Both couriers hold an order and a further attempt found no courier.
C9_Witness ==
    /\ outcome = <<MsgNoCourier>>
    /\ Len(db.ORDERS) = 2
    /\ \A dp \in Couriers(db) : ~RefEligible(dp)

RECURSIVE PizzaUnits(_, _)
PizzaUnits(rows, order_id) ==
    IF rows = <<>> THEN 0
    ELSE (IF /\ Head(rows).ORDER_ID = order_id
             /\ PRODUCT[Head(rows).PRODUCT_ID].PRODUCT_TYPE_NAME = "Pizza"
          THEN Head(rows).AMOUNT ELSE 0) + PizzaUnits(Tail(rows), order_id)

\* C10: a committed place_order adds to the ordering customer's pizza
\* count the quantities of the order's Pizza items and leaves the other
\* counts alone; no count is negative and no count ever decreases.
C10_PizzaCount ==
    /\ [](\A c \in CustomerIds : db.PIZZA_COUNT[c] >= 0)
    /\ [][/\ \A c \in CustomerIds : db'.PIZZA_COUNT[c] >= db.PIZZA_COUNT[c]
          /\ OrderAdded =>
                \A c \in CustomerIds :
                    db'.PIZZA_COUNT[c] =
                        IF c = NewOrder.CUSTOMER_ID
                        THEN db.PIZZA_COUNT[c]
                             + PizzaUnits(db'.ORDER_ITEM, Len(db'.ORDERS))
                        ELSE db.PIZZA_COUNT[c]
          /\ ~OrderAdded => db'.PIZZA_COUNT = db.PIZZA_COUNT]_vars

\* Customer 2 ordered two pizzas and a drink: the count went from 0 to 2.
C10_Witness ==
    /\ Len(db.ORDERS) = 1
    /\ db.ORDERS[1].CUSTOMER_ID = 2
    /\ Len(db.ORDER_ITEM) = 2
    /\ db.PIZZA_COUNT[2] = 2
    /\ outcome = <<MsgConfirmed>>

\* The couriers whose flag this step set back to available.
FlagsRestored ==
    {dp \in Couriers(db) : ~db.IS_AVAILABLE[dp] /\ db'.IS_AVAILABLE[dp]}

\* C11: the step that commits an order also clears the flag of the order's
\* courier; a flag goes back to available only in a mark_delivered that
\* reports the restoring; and in every state a courier with an order that
\* is not DELIVERED is flagged unavailable.
C11_ActiveCourierUnavailable ==
    /\ [](\A dp \in Couriers(db) : ActiveOrders(dp) # {} => ~db.IS_AVAILABLE[dp])
    /\ [][/\ OrderAdded => ~db'.IS_AVAILABLE[NewOrder.DELIVERY_PERSON_ID]
          /\ FlagsRestored # {} => outcome' = <<MsgDeliveredRestored>>]_vars

\* Courier 2 holds the one order, which is open, and is flagged
\* unavailable; courier 1 is still available.
C11_Witness ==
    /\ Len(db.ORDERS) = 1
    /\ db.ORDERS[1].DELIVERY_PERSON_ID = 2
    /\ db.ORDERS[1].STATUS_ID = "CREATED"
    /\ ~db.IS_AVAILABLE[2]
    /\ db.IS_AVAILABLE[1]
    /\ outcome = <<MsgConfirmed>>

\* C12: a mark_delivered that reports success has set the status of one
\* existing order to DELIVERED and its DELIVERED_AT to the current time,
\* has changed no other order, and has left every availability flag as it
\* was, the flag of the order's courier being unavailable; it never
\* reports that it restored the courier.
C12_DeliveredStampedCourierStays ==
    [][/\ outcome' # <<MsgDeliveredRestored>>
       /\ (outcome' = <<MsgDelivered>> /\ now' = now) =>
            \E o \in OrderIds(db) :
                /\ db'.ORDERS = [db.ORDERS EXCEPT ![o].STATUS_ID = "DELIVERED",
                                                  ![o].DELIVERED_AT = now]
                /\ db'.IS_AVAILABLE = db.IS_AVAILABLE
                /\ ~db'.IS_AVAILABLE[db.ORDERS[o].DELIVERY_PERSON_ID]]_vars

\* Order 1 was placed at minute 0 and marked delivered at minute 20: it is
\* DELIVERED, stamped 20, and its courier is still unavailable.
C12_Witness ==
    /\ now = 20
    /\ Len(db.ORDERS) = 1
    /\ db.ORDERS[1].STATUS_ID = "DELIVERED"
    /\ db.ORDERS[1].DELIVERED_AT = 20
    /\ ~db.IS_AVAILABLE[db.ORDERS[1].DELIVERY_PERSON_ID]
    /\ outcome = <<MsgDelivered>>

\* The order numbers mark_delivered can be given that no row of ORDERS has.
UnknownOrderIds == (1..(MaxOrders + 1)) \ OrderIds(db)

\* C13: mark_delivered with an order id that is not in ORDERS reports
\* "Order not found." whichever statement would have raised, and leaves
\* every order's status and DELIVERED_AT and every availability flag (and
\* the items, counts and used flags) as they were.
C13_UnknownOrderChangesNothing ==
    /\ [](\A oid \in UnknownOrderIds, fail \in DeliverFailPoints :
            LET r == mark_delivered(db, now, oid, fail)
            IN /\ r.msgs = <<MsgOrderNotFound>>
               /\ SameOrderData(r.s, db))
    /\ [][outcome' = <<MsgOrderNotFound>> => SameOrderData(db', db)]_vars

\* Two orders exist, one of them delivered, and a number that is neither
\* was typed.
C13_Witness ==
    /\ outcome = <<MsgOrderNotFound>>
    /\ Len(db.ORDERS) = 2
    /\ db.ORDERS[1].STATUS_ID = "DELIVERED"
    /\ db.ORDERS[2].STATUS_ID = "CREATED"

\* C18: no recorded discount entry has a positive signed amount, whatever
\* the items, the prior pizza count, the birthday flag and the code
\* percentage, the case of a running total already below zero included.
C18_NoEntryIncreasesTotal ==
    (answer # <<>> /\ ~answer.raised) =>
        \A i \in 1..Len(answer.discounts_applied) :
            answer.discounts_applied[i].amount <= 0

\* C19: an order's DELIVERED_AT, once set, is not changed by any later
\* step, and an order that is DELIVERED stays DELIVERED.
C19_DeliveredAtStable ==
    [][\A o \in OrderIds(db) :
          /\ db.ORDERS[o].DELIVERED_AT # NULL =>
                db'.ORDERS[o].DELIVERED_AT = db.ORDERS[o].DELIVERED_AT
          /\ db.ORDERS[o].STATUS_ID = "DELIVERED" =>
                db'.ORDERS[o].STATUS_ID = "DELIVERED"]_vars

\* The process whose call committed in this step.
Committer(p) == procs[p].pc = "write" /\ procs'[p].pc = "menu"

\* The courier was eligible in the store as this call read it: flagged
\* available, no order delivered in the last 30 minutes, no order that is
\* not DELIVERED.
EligibleAsRead(call, dp) ==
    LET sn == call.snapshot
    IN /\ sn.IS_AVAILABLE[dp]
       /\ \A o \in OrderIds(sn) :
            sn.ORDERS[o].DELIVERY_PERSON_ID = dp =>
                /\ sn.ORDERS[o].STATUS_ID = "DELIVERED"
                /\ sn.ORDERS[o].DELIVERED_AT # NULL
                /\ now - sn.ORDERS[o].DELIVERED_AT >= 30

\* C14: with two processes in place_order at once, the courier of a
\* committed order passed the eligibility check on the store as the
\* placing process read it, not on the store as committed at the commit;
\* a courier therefore can hold more than one open order, and holds at
\* most one per process.  (The witness is the state with two.)
C14_EligibilityCheckedOnOwnRead ==
    /\ [](\A dp \in Couriers(db) :
            Cardinality(ActiveOrders(dp)) <= Cardinality(Procs))
    /\ [][OrderAdded =>
            \E p \in Procs :
                /\ Committer(p)
                /\ NewOrder.DELIVERY_PERSON_ID = procs[p].delivery_person_id
                /\ EligibleAsRead(procs[p], NewOrder.DELIVERY_PERSON_ID)]_vars

\* Courier 2 holds two orders, both CREATED, while courier 1 is still
\* available: each process chose courier 2 before the other committed.
C14_Witness ==
    /\ Len(db.ORDERS) = 2
    /\ \A o \in {1, 2} : /\ db.ORDERS[o].DELIVERY_PERSON_ID = 2
                          /\ db.ORDERS[o].STATUS_ID = "CREATED"
    /\ Cardinality(ActiveOrders(2)) = 2
    /\ ~db.IS_AVAILABLE[2]
    /\ db.IS_AVAILABLE[1]

\* C15: with two processes placing orders at once, at most one committed
\* order references a given discount code.
C15_CodeOnOneOrder ==
    \A d \in CodeIds : Cardinality(OrdersWithCode(d)) <= 1

IsPrefix(a, b) == Len(a) <= Len(b) /\ a = SubSeq(b, 1, Len(a))

\* The steps of a call tell what the call has done so far.
StepsDone(call) ==
    /\ ("find_customer" \in Range(call.steps)) = (call.cust # NULL)
    /\ ("select_products" \in Range(call.steps)) = (call.items # <<>>)
    /\ ("assign_delivery_person" \in Range(call.steps))
            = (call.delivery_person_id # NULL)
    /\ ("discounts_applied" \in Range(call.steps)) = (call.pc = "write")

\* C17 as stated: the steps of a call come in the order customer, items,
\* discount computation, courier assignment, and only then persistence.
C17_DiscountsBeforeCourier ==
    \A p \in Procs :
        IsPrefix(procs[p].steps,
                 <<"find_customer", "select_products", "discounts_applied",
                   "assign_delivery_person">>)

\* C17, amended: the steps of a call come in the order customer, items,
\* courier assignment, discount computation (the reading of the code
\* included), and an order is committed only by a call that has done all
\* four: the courier is always assigned before the code is read.
C17_CourierBeforeDiscounts ==
    /\ [](\A p \in Procs :
            /\ StepsDone(procs[p])
            /\ IsPrefix(procs[p].steps,
                        <<"find_customer", "select_products",
                          "assign_delivery_person", "discounts_applied">>))
    /\ [][OrderAdded =>
            \E p \in Procs :
                /\ Committer(p)
                /\ procs[p].steps = <<"find_customer", "select_products",
                                      "assign_delivery_person",
                                      "discounts_applied">>]_vars

\* Process 1 has read the code WELCOME10 and computed the discounts for
\* customer 1, with courier 2 assigned before, and has not written yet.
C17_Witness ==
    /\ procs[1].pc = "write"
    /\ procs[1].cust = 1
    /\ procs[1].delivery_person_id = 2
    /\ procs[1].discount_id = 1
    /\ Last(procs[1].steps) = "discounts_applied"
    /\ db.ORDERS = <<>>

\* The courier has delivered, holds no open order, and its last delivery
\* is 30 minutes old or older.
CooldownOver(dp) ==
    /\ ActiveOrders(dp) = {}
    /\ \E o \in OrderIds(db) : db.ORDERS[o].DELIVERY_PERSON_ID = dp
    /\ \A o \in OrderIds(db) :
            db.ORDERS[o].DELIVERY_PERSON_ID = dp =>
                now - db.ORDERS[o].DELIVERED_AT >= 30

\* C16: a courier whose cooldown is over is eventually eligible again
\* (flag restored, so that assign_delivery_person can return it), unless
\* the courier delivers again before.
C16_EligibleAgain ==
    \A dp \in {1, 2} :
        CooldownOver(dp) ~> (RefEligible(dp) \/ DeliveredInLast30(dp))

====
